---- MODULE Spec2Model ----
(***************************************************************************)
(* A model of All_in_One.py: the chain assignment solver                   *)
(* (AssignQueryToTemp / I_AssignQueryToTemp), the construction of the      *)
(* target interaction graph, the ClustalW score cascade                    *)
(* (AnalizeClustalScore), the template selection (SelectTemplate) and the  *)
(* clash check (FindInteractions with inter = False).                      *)
(*                                                                         *)
(* Python strings are sequences of one-character strings, so that          *)
(* getChain, getNameWOChain and split("_") are computed, not assumed.      *)
(* Python dicts are insertion-ordered sequences of <<key, value>> pairs.   *)
(***************************************************************************)
EXTENDS Integers, Sequences, FiniteSets, TLC

VARIABLES
    \* ---- the assignment phase (lines 497-604)
    Final_interactions,   \* [target_interacts |-> dict, temps |-> dict]
    PDB_bychain_names,    \* the target chain names, in order (line 530)
    PDB_temp_names,       \* the template names, in order (line 552)
    temp_chains,          \* dict: template chain name -> target chain name or None
    t,                    \* position of the loop of line 603 in PDB_temp_names
    pc,                   \* "loop": between two solver runs; "solving": inside one
    cand_list,            \* the list I_AssignQueryToTemp hands to AssignQueryToTemp
    stack,                \* the activation records of AssignQueryToTemp
    ret,                  \* the value the last finished AssignQueryToTemp returned
    outcome,              \* per template run: "early_return", "True" or "False"
    undone,               \* how many times line 368 has run
    calls,                \* how many times AssignQueryToTemp was entered
    \* ---- the alignment scorer (lines 174-207, 577-586)
    sc_scores,            \* the pairwise scores ClustalW computed, per target chain
    sc_file,              \* the ClustalScore.txt report, line by line
    sc_temp_name,         \* the template chain the report was made for
    target_temp,          \* the candidate list stored for it (line 586)
    sc_pc,
    \* ---- the template selection (lines 75-114)
    BLAST_outs,           \* the BLAST reports, one per query, line by line
    Outputs,              \* the recorded hits per report (line 84)
    templates,            \* what SelectTemplate returns
    sel_pc,
    \* ---- the clash check (lines 209-246)
    PDB_obj,              \* a structure: chains of atoms
    clash,                \* what FindInteractions(PDB_obj, False) returns
    clash_pc,
    \* ---- the input phase (lines 513-538)
    PDB_input_objects,    \* the structures ParsePDB made of the files given to -i
    parse_pc

solverVars == <<Final_interactions, PDB_bychain_names, PDB_temp_names, temp_chains,
                t, pc, cand_list, stack, ret, outcome, undone, calls>>
scoreVars == <<sc_scores, sc_file, sc_temp_name, target_temp, sc_pc>>
selectVars == <<BLAST_outs, Outputs, templates, sel_pc>>
clashVars == <<PDB_obj, clash, clash_pc>>
parseVars == <<PDB_input_objects, parse_pc>>
vars == <<solverVars, scoreVars, selectVars, clashVars, parseVars>>

\* ------------------------------------------------------------------ bounds

\* How many input structure files one run is given.
MaxInputs == 2

\* How many target chains a joined FASTA file holds beside the template chain.
MaxAligned == 2

\* How many BLAST reports SelectTemplate reads, and how many hits one lists.
MaxQueries == 2
MaxHits == 3

\* How many chains the structure given to the clash check has, and how many
\* atoms a chain has.
MaxClashChains == 2
MaxAtoms == 2

\* How many templates the solver loop goes through, and how many chains each
\* of them has, where it goes through several.
MaxTemplates == 2
MaxLoopChains == 2

\* ----------------------------------------------------------- Python values

\* Python's None, where a name (a non-empty string) is expected.
None == <<>>

\* x in l, for a list l.
InList(x, l) == \E k \in 1..Len(l) : l[k] = x

\* The set of elements of a list.
Range(l) == {l[k] : k \in 1..Len(l)}

\* d.keys(), in insertion order.
Keys(d) == [k \in 1..Len(d) |-> d[k][1]]

\* k in d.keys()
HasKey(d, k) == \E n \in 1..Len(d) : d[n][1] = k

\* d[k], for a key of d.
Get(d, k) == d[CHOOSE n \in 1..Len(d) : d[n][1] = k][2]

\* d[k] = v: a present key keeps its place, a new key goes last.
Put(d, k, v) ==
    IF HasKey(d, k)
    THEN [n \in 1..Len(d) |-> IF d[n][1] = k THEN <<k, v>> ELSE d[n]]
    ELSE Append(d, <<k, v>>)

\* A list with the lists of a list of lists, one after the other.
RECURSIVE Flatten(_)
Flatten(ll) == IF ll = <<>> THEN <<>> ELSE Head(ll) \o Flatten(Tail(ll))

\* ------------------------------------------------------------------ names

\* whole_name[:-2]
getNameWOChain(whole_name) == SubSeq(whole_name, 1, Len(whole_name) - 2)

\* whole_name[-1:]
getChain(whole_name) ==
    IF Len(whole_name) = 0 THEN "" ELSE whole_name[Len(whole_name)]

\* pref.split("_")[1]: what stands between the first and the second "_".
SplitField1(pref) ==
    LET us == {k \in 1..Len(pref) : pref[k] = "_"}
        first == CHOOSE k \in us : \A m \in us : k <= m
        later == {k \in us : k > first}
        stop == IF later = {} THEN Len(pref) + 1
                ELSE CHOOSE k \in later : \A m \in later : k <= m
    IN  SubSeq(pref, first + 1, stop - 1)

\* pdb.get_id() + "_" + chain.get_id()
ChainName(id, chain) == id \o <<"_", chain>>

\* ------------------------------------------------------- the input phase

\* The chain labels of the input structures, in the order PDB files list them.
TargetLabels == <<"A", "B", "C">>

\* An input structure file: its chains, in file order. The file is named
\* after them (AB.pdb holds chains A and B), and holds two chains or more.
Structure(chains) == [id |-> chains, chains |-> chains]

\* The elements of l at the positions in S, in the order of l.
Pick(l, S) == SelectSeq([k \in 1..Len(l) |-> IF k \in S THEN <<l[k]>> ELSE <<>>],
                        LAMBDA x : x # <<>>)

Labelled(l, S) == [k \in 1..Len(Pick(l, S)) |-> Pick(l, S)[k][1]]

InputStructures ==
    {Structure(Labelled(TargetLabels, S)) :
        S \in {S \in SUBSET (1..Len(TargetLabels)) : Cardinality(S) >= 2}}

\* What -i can be given: one to MaxInputs different files.
InputSets ==
    {ins \in UNION {[1..n -> InputStructures] : n \in 1..MaxInputs} :
        \A a, b \in 1..Len(ins) : a # b => ins[a] # ins[b]}

\* SplitChain: one prefix per chain of each structure, a chain id once per structure.
RECURSIVE SplitOne(_, _, _)
SplitOne(pdb, k, chain_names) ==
    IF k > Len(pdb.chains) THEN <<>>
    ELSE IF pdb.chains[k] \notin chain_names
         THEN <<ChainName(pdb.id, pdb.chains[k])>>
              \o SplitOne(pdb, k + 1, chain_names \cup {pdb.chains[k]})
         ELSE SplitOne(pdb, k + 1, chain_names)

SplitChain(PDB_objects) ==
    Flatten([k \in 1..Len(PDB_objects) |-> SplitOne(PDB_objects[k], 1, {})])

\* Lines 518-526: the first prefix, and every prefix whose chain label was not seen.
RECURSIVE UniqueFrom(_, _, _, _)
UniqueFrom(file_prefixes, k, unique_chains, already_added) ==
    IF k > Len(file_prefixes) THEN unique_chains
    ELSE LET pref == file_prefixes[k]
             u1 == IF k = 1 THEN Append(unique_chains, pref) ELSE unique_chains
             a1 == IF k = 1 THEN Append(already_added, SplitField1(pref))
                   ELSE already_added
         IN  IF ~InList(SplitField1(pref), a1)
             THEN UniqueFrom(file_prefixes, k + 1, Append(u1, pref),
                             Append(a1, SplitField1(pref)))
             ELSE UniqueFrom(file_prefixes, k + 1, u1, a1)

UniqueChains(file_prefixes) == UniqueFrom(file_prefixes, 1, <<>>, <<>>)

\* TargetInteractsFrom with an assignment for the append of line 538: a first
\* chain met again keeps its last partner only.
RECURSIVE TargetInteractsFrom_Overwrites(_, _, _)
TargetInteractsFrom_Overwrites(inputs, k, target_interacts) ==
    IF k > Len(inputs) THEN target_interacts
    ELSE TargetInteractsFrom_Overwrites(inputs, k + 1,
             Put(target_interacts, inputs[k].chains[1], <<inputs[k].chains[2]>>))

\* Lines 532-538: the target interaction graph, from the first two chains of
\* each input structure.
RECURSIVE TargetInteractsFrom(_, _, _)
TargetInteractsFrom(inputs, k, target_interacts) ==
    IF k > Len(inputs) THEN target_interacts
    ELSE LET inp_chains_ids == inputs[k].chains
             c0 == inp_chains_ids[1]
             c1 == inp_chains_ids[2]
         IN  IF ~HasKey(target_interacts, c0)
             THEN TargetInteractsFrom(inputs, k + 1,
                                      Put(target_interacts, c0, <<c1>>))
             ELSE IF ~InList(c1, Get(target_interacts, c0))
             THEN TargetInteractsFrom(inputs, k + 1,
                     Put(target_interacts, c0, Append(Get(target_interacts, c0), c1)))
             ELSE TargetInteractsFrom(inputs, k + 1, target_interacts)

TargetInteracts(inputs) == TargetInteractsFrom(inputs, 1, <<>>)

\* ----------------------------------------------- the interaction model

\* The chain labels of a template structure, in file order.
TemplateLabels == <<"X", "Y", "Z">>

\* The name ParsePDB gives the k-th template.
TemplateName(k) == <<"T", <<"1", "2", "3", "4">>[k]>>

\* The chain names of the k-th template, when it has m chains (SplitChain).
TemplateChainNames(k, m) ==
    [c \in 1..m |-> ChainName(TemplateName(k), TemplateLabels[c])]

\* Lines 596-600 on what FindInteractions(temp_obj, True) lists: a chain is a
\* key when an atom of it has another chain within reach, and distance is
\* symmetric. edges is the set of two-element sets of chain names in reach.
TempInteract(names, edges) ==
    LET near(n) == {getChain(o) : o \in {o \in Range(names) : {n, o} \in edges}}
        keyed == SelectSeq(names, LAMBDA n : near(n) # {})
    IN  [k \in 1..Len(keyed) |-> <<getChain(keyed[k]), near(keyed[k])>>]

\* Lines 577-590: one entry per template chain, with the target chains the
\* cascade kept for it, in the order of the joined FASTA file.
TargetTemp(names, targets, kept) ==
    [k \in 1..Len(names) |->
        <<names[k], SelectSeq(targets, LAMBDA g : g \in kept[names[k]])>>]

\* Final_interactions["temps"] for templates of the given numbers of chains.
Temps(shape, targets, kept, edges) ==
    [k \in 1..Len(shape) |->
        <<TemplateName(k),
          [target_temp |-> TargetTemp(TemplateChainNames(k, shape[k]), targets, kept),
           temp_interact |-> TempInteract(TemplateChainNames(k, shape[k]), edges)]>>]

AllTemplateChainNames(shape) ==
    Flatten([k \in 1..Len(shape) |-> TemplateChainNames(k, shape[k])])

\* The pairs of chains of one template.
ChainPairs(shape) ==
    UNION {{{a, b} : a, b \in Range(TemplateChainNames(k, shape[k]))} :
             k \in 1..Len(shape)}

\* The state the assignment phase starts in (line 602): the inputs are
\* parsed, every template chain has a non-empty candidate list (the cascade
\* goes down to score 0) and is unassigned (line 576).
SolverInit(inputSets, shapes) ==
    \E ins \in inputSets, shape \in shapes :
        LET targets == UniqueChains(SplitChain(ins))
            names == AllTemplateChainNames(shape)
        IN  \E kept \in [Range(names) -> (SUBSET Range(targets)) \ {{}}],
               edges \in SUBSET {p \in ChainPairs(shape) : Cardinality(p) = 2} :
                /\ Final_interactions =
                       [target_interacts |-> TargetInteracts(ins),
                        temps |-> Temps(shape, targets, kept, edges)]
                /\ PDB_bychain_names = targets
                /\ PDB_temp_names = [k \in 1..Len(shape) |-> TemplateName(k)]
                /\ temp_chains = [k \in 1..Len(names) |-> <<names[k], None>>]
                /\ t = 1
                /\ pc = "loop"
                /\ cand_list = <<>>
                /\ stack = <<>>
                /\ ret = FALSE
                /\ outcome = <<>>
                /\ undone = 0
                /\ calls = 0

SolverIdle ==
    /\ Final_interactions = [target_interacts |-> <<>>, temps |-> <<>>]
    /\ PDB_bychain_names = <<>>
    /\ PDB_temp_names = <<>>
    /\ temp_chains = <<>>
    /\ t = 1
    /\ pc = "idle"
    /\ cand_list = <<>>
    /\ stack = <<>>
    /\ ret = FALSE
    /\ outcome = <<>>
    /\ undone = 0
    /\ calls = 0

\* ------------------------------------------ the chain assignment solver

getTargInteractionKeys == Range(Keys(Final_interactions.target_interacts))

getTempInteractionKeys(temp) ==
    Range(Keys(Get(Final_interactions.temps, temp).temp_interact))

getTempInteractions(temp_name, temp) ==
    Get(Get(Final_interactions.temps, temp).temp_interact, getChain(temp_name))

getTargetInteractions(targ_name) ==
    Get(Final_interactions.target_interacts, getChain(targ_name))

\* Lines 332-338 (and 342-348, 352-358): the template chains must interact.
TempChainsInteract(prev_temp, cand, temp) ==
    IF getChain(prev_temp) \in getTempInteractionKeys(temp)
    THEN getChain(cand) \in getTempInteractions(prev_temp, temp)
    ELSE FALSE

\* PairValid with the target chains required to interact exactly when the
\* template chains do (the converse is enforced too).
PairValid_Biconditional(targ, prev_targ, prev_temp, cand, temp) ==
    LET known(a, b) == /\ a \in getTargInteractionKeys
                       /\ InList(b, Get(Final_interactions.target_interacts, a))
    IN  (known(getChain(targ), getChain(prev_targ))
         \/ known(getChain(prev_targ), getChain(targ)))
            <=> TempChainsInteract(prev_temp, cand, temp)

\* PairValid without the branches of lines 339-358: a pair of which one chain
\* only is a key is let through.
PairValid_OneKeyPasses(targ, prev_targ, prev_temp, cand, temp) ==
    IF getChain(targ) \in getTargInteractionKeys
       /\ getChain(prev_targ) \in getTargInteractionKeys
    THEN (InList(getChain(prev_targ), getTargetInteractions(targ))
          \/ InList(getChain(targ), getTargetInteractions(prev_targ)))
            => TempChainsInteract(prev_temp, cand, temp)
    ELSE (getChain(targ) \in getTargInteractionKeys
          \/ getChain(prev_targ) \in getTargInteractionKeys)

\* PairValid with absent evidence taken as neutral: line 361 leaves valid
\* alone when neither chain is a key.
PairValid_NoEvidenceNeutral(targ, prev_targ, prev_temp, cand, temp) ==
    IF getChain(targ) \in getTargInteractionKeys
       /\ getChain(prev_targ) \in getTargInteractionKeys
    THEN (InList(getChain(prev_targ), getTargetInteractions(targ))
          \/ InList(getChain(targ), getTargetInteractions(prev_targ)))
            => TempChainsInteract(prev_temp, cand, temp)
    ELSE IF getChain(targ) \in getTargInteractionKeys
    THEN InList(getChain(prev_targ), getTargetInteractions(targ))
            => TempChainsInteract(prev_temp, cand, temp)
    ELSE IF getChain(prev_targ) \in getTargInteractionKeys
    THEN InList(getChain(targ), getTargetInteractions(prev_targ))
            => TempChainsInteract(prev_temp, cand, temp)
    ELSE TRUE

\* Lines 329-361: whether the body of the loop over prev_temp leaves valid
\* alone, for targ newly bound to cand and prev_targ bound to prev_temp.
PairValid(targ, prev_targ, prev_temp, cand, temp) ==
    IF getChain(targ) \in getTargInteractionKeys
       /\ getChain(prev_targ) \in getTargInteractionKeys
    THEN (InList(getChain(prev_targ), getTargetInteractions(targ))
          \/ InList(getChain(targ), getTargetInteractions(prev_targ)))
            => TempChainsInteract(prev_temp, cand, temp)
    ELSE IF getChain(targ) \in getTargInteractionKeys
    THEN InList(getChain(prev_targ), getTargetInteractions(targ))
            => TempChainsInteract(prev_temp, cand, temp)
    ELSE IF getChain(prev_targ) \in getTargInteractionKeys
    THEN InList(getChain(targ), getTargetInteractions(prev_targ))
            => TempChainsInteract(prev_temp, cand, temp)
    ELSE FALSE

\* Lines 325-361: valid after the loop over temp_chains.keys(), which looks at
\* every template chain that holds another target chain than targ.
Valid(chains, targ, cand, temp) ==
    \A n \in 1..Len(chains) :
        (chains[n][2] # None /\ chains[n][2] # targ)
            => PairValid(targ, chains[n][2], chains[n][1], cand, temp)

\* Lines 391-395 for one target: the template chains that list it.
CandidatesOf(target, temp) ==
    LET target_temp_d == Get(Final_interactions.temps, temp).target_temp
    IN  SelectSeq(Keys(target_temp_d), LAMBDA template : InList(target, Get(target_temp_d, template)))

\* Lines 387-399: the candidates list when the loop runs to its end.
Candidates(targ_chain_list, temp) ==
    [k \in 1..Len(targ_chain_list) |->
        <<targ_chain_list[k], CandidatesOf(targ_chain_list[k], temp)>>]

\* Line 396-399: some target has no candidate, and the function returns.
ReturnsEarly(targ_chain_list, temp) ==
    \E k \in 1..Len(targ_chain_list) : CandidatesOf(targ_chain_list[k], temp) = <<>>

Top == stack[Len(stack)]
Pop == SubSeq(stack, 1, Len(stack) - 1)
temp == PDB_temp_names[t]
\* cand_list[i][0] and cand_list[i][1][j] of the running activation
targ == cand_list[Top.i + 1][1]
cand == cand_list[Top.i + 1][2][Top.j + 1]
Frame(i) == [i |-> i, j |-> 0, at |-> "while"]
SetTop(f) == [stack EXCEPT ![Len(stack)] = f]

others == <<scoreVars, selectVars, clashVars, parseVars>>
model == <<Final_interactions, PDB_bychain_names, PDB_temp_names>>

\* I_AssignQueryToTemp without the return of line 399.
I_AssignQueryToTemp_NoReturn ==
    /\ pc = "loop"
    /\ t <= Len(PDB_temp_names)
    /\ cand_list' = Candidates(PDB_bychain_names, temp)
    /\ stack' = <<Frame(0)>>
    /\ calls' = calls + 1
    /\ pc' = "solving"
    /\ UNCHANGED <<t, outcome, model, temp_chains, ret, undone, others>>

\* Lines 603-604 and 387-402: the loop takes the next template and calls
\* I_AssignQueryToTemp, which returns at once or enters AssignQueryToTemp.
I_AssignQueryToTemp ==
    /\ pc = "loop"
    /\ t <= Len(PDB_temp_names)
    /\ IF ReturnsEarly(PDB_bychain_names, temp)
       THEN /\ outcome' = Append(outcome, "early_return")
            /\ t' = t + 1
            /\ UNCHANGED <<pc, cand_list, stack, calls>>
       ELSE /\ cand_list' = Candidates(PDB_bychain_names, temp)
            /\ stack' = <<Frame(0)>>
            /\ calls' = calls + 1
            /\ pc' = "solving"
            /\ UNCHANGED <<t, outcome>>
    /\ UNCHANGED <<model, temp_chains, ret, undone, others>>

\* Lines 316-317: every target chain is placed.
ReturnTrue ==
    /\ pc = "solving" /\ stack # <<>>
    /\ Top.at = "while"
    /\ Top.i >= Len(cand_list)
    /\ stack' = Pop
    /\ ret' = TRUE
    /\ UNCHANGED <<model, temp_chains, t, pc, cand_list, outcome, undone, calls, others>>

\* Lines 320-323, 370: the candidate holds a target chain already.
Skip ==
    /\ pc = "solving" /\ stack # <<>>
    /\ Top.at = "while"
    /\ Top.i < Len(cand_list)
    /\ Top.j < Len(cand_list[Top.i + 1][2])
    /\ Get(temp_chains, cand) # None
    /\ stack' = SetTop([Top EXCEPT !.j = Top.j + 1])
    /\ UNCHANGED <<model, temp_chains, t, pc, cand_list, ret, outcome, undone, calls, others>>

\* Bind without the test of line 323.
Bind_AnyChain ==
    /\ pc = "solving" /\ stack # <<>>
    /\ Top.at = "while"
    /\ Top.i < Len(cand_list)
    /\ Top.j < Len(cand_list[Top.i + 1][2])
    /\ temp_chains' = Put(temp_chains, cand, targ)
    /\ stack' = SetTop([Top EXCEPT !.at = "check"])
    /\ UNCHANGED <<model, t, pc, cand_list, ret, outcome, undone, calls, others>>

\* Lines 320-324: the candidate is free, and gets the target chain.
Bind ==
    /\ pc = "solving" /\ stack # <<>>
    /\ Top.at = "while"
    /\ Top.i < Len(cand_list)
    /\ Top.j < Len(cand_list[Top.i + 1][2])
    /\ Get(temp_chains, cand) = None
    /\ temp_chains' = Put(temp_chains, cand, targ)
    /\ stack' = SetTop([Top EXCEPT !.at = "check"])
    /\ UNCHANGED <<model, t, pc, cand_list, ret, outcome, undone, calls, others>>

\* Lines 325-365: the binding is consistent, and the next target chain is tried.
Accept ==
    /\ pc = "solving" /\ stack # <<>>
    /\ Top.at = "check"
    /\ Valid(temp_chains, targ, cand, temp)
    /\ stack' = Append(SetTop([Top EXCEPT !.at = "called"]), Frame(Top.i + 1))
    /\ calls' = calls + 1
    /\ UNCHANGED <<model, temp_chains, t, pc, cand_list, ret, outcome, undone, others>>

\* Lines 325-363, 368-370: the binding is not consistent, and is undone.
Reject ==
    /\ pc = "solving" /\ stack # <<>>
    /\ Top.at = "check"
    /\ ~Valid(temp_chains, targ, cand, temp)
    /\ temp_chains' = Put(temp_chains, cand, None)
    /\ stack' = SetTop([Top EXCEPT !.at = "while", !.j = Top.j + 1])
    /\ undone' = undone + 1
    /\ UNCHANGED <<model, t, pc, cand_list, ret, outcome, calls, others>>

\* Lines 365-366: the call for the next target chain returned True.
PropagateTrue ==
    /\ pc = "solving" /\ stack # <<>>
    /\ Top.at = "called"
    /\ ret = TRUE
    /\ stack' = Pop
    /\ UNCHANGED <<model, temp_chains, t, pc, cand_list, ret, outcome, undone, calls, others>>

\* Backtrack with "return AssignQueryToTemp(...)" for lines 365-366: the first
\* failure below ends the search at this depth.
Backtrack_GivesUp ==
    /\ pc = "solving" /\ stack # <<>>
    /\ Top.at = "called"
    /\ ret = FALSE
    /\ temp_chains' = Put(temp_chains, cand, None)
    /\ stack' = Pop
    /\ undone' = undone + 1
    /\ UNCHANGED <<model, t, pc, cand_list, ret, outcome, calls, others>>

\* Backtrack without line 368.
Backtrack_KeepsBinding ==
    /\ pc = "solving" /\ stack # <<>>
    /\ Top.at = "called"
    /\ ret = FALSE
    /\ stack' = SetTop([Top EXCEPT !.at = "while", !.j = Top.j + 1])
    /\ UNCHANGED <<model, temp_chains, t, pc, cand_list, ret, outcome, undone, calls, others>>

\* Lines 365, 368-370: the call for the next target chain returned False.
Backtrack ==
    /\ pc = "solving" /\ stack # <<>>
    /\ Top.at = "called"
    /\ ret = FALSE
    /\ temp_chains' = Put(temp_chains, cand, None)
    /\ stack' = SetTop([Top EXCEPT !.at = "while", !.j = Top.j + 1])
    /\ undone' = undone + 1
    /\ UNCHANGED <<model, t, pc, cand_list, ret, outcome, calls, others>>

\* Lines 320, 371: no candidate is left for this target chain.
Exhausted ==
    /\ pc = "solving" /\ stack # <<>>
    /\ Top.at = "while"
    /\ Top.i < Len(cand_list)
    /\ Top.j >= Len(cand_list[Top.i + 1][2])
    /\ stack' = Pop
    /\ ret' = FALSE
    /\ UNCHANGED <<model, temp_chains, t, pc, cand_list, outcome, undone, calls, others>>

\* Lines 402, 603: the first call returned, and the loop goes on.
SolverReturns ==
    /\ pc = "solving" /\ stack = <<>>
    /\ outcome' = Append(outcome, IF ret THEN "True" ELSE "False")
    /\ t' = t + 1
    /\ pc' = "loop"
    /\ UNCHANGED <<model, temp_chains, cand_list, stack, ret, undone, calls, others>>

Next ==
    \/ I_AssignQueryToTemp
    \/ ReturnTrue
    \/ Skip
    \/ Bind
    \/ Accept
    \/ Reject
    \/ PropagateTrue
    \/ Backtrack
    \/ Exhausted
    \/ SolverReturns

ScoreIdle ==
    /\ sc_scores = <<>> /\ sc_file = <<>> /\ sc_temp_name = <<>>
    /\ target_temp = <<>> /\ sc_pc = "idle"

SelectIdle ==
    /\ BLAST_outs = <<>> /\ Outputs = <<>> /\ templates = {} /\ sel_pc = "idle"

ClashIdle ==
    /\ PDB_obj = <<>> /\ clash = "None" /\ clash_pc = "idle"

ParseIdle ==
    /\ PDB_input_objects = <<>> /\ parse_pc = "idle"

\* One template of one to three chains.
SoloShapes == {<<m>> : m \in 1..Len(TemplateLabels)}

Init ==
    /\ SolverInit(InputSets, SoloShapes)
    /\ ScoreIdle /\ SelectIdle /\ ClashIdle /\ ParseIdle

Spec == Init /\ [][Next]_vars

\* ----------------------------------------------------- solver properties

\* The chain names of a template, from the keys of its candidate map.
ChainsOf(tmpl) == Keys(Get(Final_interactions.temps, tmpl).target_temp)

\* The template chains of tmpl that hold a target chain.
Bound(tmpl) == {c \in Range(ChainsOf(tmpl)) : Get(temp_chains, c) # None}

Unassigned(tmpl) == Bound(tmpl) = {}

\* The k-th run of I_AssignQueryToTemp is over.
RunOver(k) == Len(outcome) >= k

\* A way to place every target chain: a template chain of its candidates for
\* each, all different, each consistent with the ones placed before it.
IsWay(f, tmpl) ==
    /\ \A k \in DOMAIN f : InList(f[k], CandidatesOf(PDB_bychain_names[k], tmpl))
    /\ \A k, m \in DOMAIN f : k # m => f[k] # f[m]
    /\ \A k, m \in DOMAIN f :
          m < k => PairValid(PDB_bychain_names[k], PDB_bychain_names[m], f[m], f[k], tmpl)

ExistsWay(tmpl) ==
    \E f \in [1..Len(PDB_bychain_names) -> Range(ChainsOf(tmpl))] : IsWay(f, tmpl)

\* C1: run for one template from an all-unassigned Assignment, the solver
\* ends in success exactly when there is a way to give every target chain, in
\* order, a different template chain of its candidates that passes the check
\* against the earlier ones; and then every target chain is held by one of
\* its candidates.
C1_SolverComplete ==
    RunOver(1) =>
        /\ (outcome[1] = "True") <=> ExistsWay(PDB_temp_names[1])
        /\ outcome[1] = "True" =>
              \A k \in 1..Len(PDB_bychain_names) :
                  \E c \in Range(CandidatesOf(PDB_bychain_names[k], PDB_temp_names[1])) :
                      Get(temp_chains, c) = PDB_bychain_names[k]

\* A search that had to give up its first accepted binding and still succeeded.
C1_Witness ==
    /\ RunOver(1) /\ outcome[1] = "True"
    /\ undone >= 2
    /\ Len(PDB_bychain_names) = 3

\* A listed under B or B listed under A in the target interaction graph.
TargetsInteract(a, b) ==
    LET ti == Final_interactions.target_interacts
    IN  \/ HasKey(ti, a) /\ InList(b, Get(ti, a))
        \/ HasKey(ti, b) /\ InList(a, Get(ti, b))

\* Chain y recorded under chain x in the template interaction graph of tmpl.
TemplatesInteract(x, y, tmpl) ==
    LET tg == Get(Final_interactions.temps, tmpl).temp_interact
    IN  HasKey(tg, x) /\ y \in Get(tg, x)

\* C2: after a successful run, two target chains that interact in the target
\* interaction graph hold template chains that interact in the template
\* interaction graph.
C2_InteractionPreserved ==
    (RunOver(1) /\ outcome[1] = "True") =>
        \A c, d \in Bound(PDB_temp_names[1]) :
            (c # d /\ TargetsInteract(getChain(Get(temp_chains, c)),
                                      getChain(Get(temp_chains, d))))
                => TemplatesInteract(getChain(c), getChain(d), PDB_temp_names[1])

\* A success that placed two interacting target chains of which one only is a key.
C2_Witness ==
    /\ RunOver(1) /\ outcome[1] = "True"
    /\ \E c, d \in Bound(PDB_temp_names[1]) :
          /\ c # d
          /\ TargetsInteract(getChain(Get(temp_chains, c)), getChain(Get(temp_chains, d)))
          /\ getChain(Get(temp_chains, d)) \notin getTargInteractionKeys

\* No target chain is held by two template chains.
OneToOne ==
    \A m, n \in 1..Len(temp_chains) :
        (m # n /\ temp_chains[m][2] # None) => temp_chains[m][2] # temp_chains[n][2]

\* A step gives a template chain a target chain only if it held none.
BindsFreeChain ==
    \A n \in 1..Len(temp_chains) :
        (temp_chains'[n][2] # temp_chains[n][2] /\ temp_chains'[n][2] # None)
            => temp_chains[n][2] = None

\* C3: during the search and after it the assignment is one-to-one, and a
\* binding is only made to a template chain that is unassigned.
C3_OneToOne == []OneToOne /\ [][BindsFreeChain]_vars

\* The search meets a candidate that holds a target chain, with two chains bound.
C3_Witness ==
    /\ pc = "solving" /\ stack # <<>>
    /\ Top.at = "while"
    /\ Top.i < Len(cand_list)
    /\ Top.j < Len(cand_list[Top.i + 1][2])
    /\ Get(temp_chains, cand) # None
    /\ Cardinality(Bound(temp)) = 2

\* C4: when a target chain has no candidate, the run ends without a binding:
\* AssignQueryToTemp is not entered and the Assignment stays as it was.
C4_EmptyCandidateShortCircuit ==
    ReturnsEarly(PDB_bychain_names, PDB_temp_names[1]) =>
        /\ calls = 0
        /\ pc # "solving"
        /\ Unassigned(PDB_temp_names[1])
        /\ RunOver(1) => outcome[1] = "early_return"

\* A run that returned early although another target chain had candidates.
C4_Witness ==
    /\ RunOver(1) /\ outcome[1] = "early_return"
    /\ \E k \in 1..Len(PDB_bychain_names) :
          CandidatesOf(PDB_bychain_names[k], PDB_temp_names[1]) # <<>>

\* C5: a search that is exhausted without success leaves every template
\* chain of the template unassigned.
C5_FailureLeavesUnassigned ==
    /\ (RunOver(1) /\ outcome[1] = "False") => Unassigned(PDB_temp_names[1])
    /\ (pc = "solving" /\ stack = <<>> /\ ~ret) => Unassigned(PDB_temp_names[1])

\* A failed search that had undone bindings at two depths or more.
C5_Witness ==
    /\ RunOver(1) /\ outcome[1] = "False"
    /\ undone >= 3
    /\ calls >= 3

\* The end-to-end scenario: AB.pdb and BC.pdb, one template of three chains
\* that each list the three target chains, and that all interact pairwise.
ScenarioInputs == <<Structure(<<"A", "B">>), Structure(<<"B", "C">>)>>

Scenario ==
    LET tmpl == PDB_temp_names[1]
        entry == Get(Final_interactions.temps, tmpl)
    IN  /\ Len(PDB_temp_names) = 1
        /\ PDB_bychain_names = UniqueChains(SplitChain(ScenarioInputs))
        /\ Final_interactions.target_interacts = TargetInteracts(ScenarioInputs)
        /\ Len(entry.target_temp) = 3
        /\ \A n \in 1..3 : Range(entry.target_temp[n][2]) = Range(PDB_bychain_names)
        /\ \A c, d \in Range(ChainsOf(tmpl)) :
              c # d => TemplatesInteract(getChain(c), getChain(d), tmpl)

\* C9: in the end-to-end scenario the solver succeeds with the three target
\* chains on three different template chains, and never undoes a binding.
C9_ScenarioNoBacktracking ==
    Scenario =>
        /\ undone = 0
        /\ RunOver(1) =>
              /\ outcome[1] = "True"
              /\ {Get(temp_chains, c) : c \in Bound(PDB_temp_names[1])}
                    = Range(PDB_bychain_names)
              /\ Cardinality(Bound(PDB_temp_names[1])) = 3

C9_Witness == Scenario /\ RunOver(1) /\ outcome[1] = "True" /\ calls = 4

\* The consistency check of the newly bound target chain is about to run.
AtCheck == pc = "solving" /\ stack # <<>> /\ Top.at = "check"

\* The entries of the Assignment that hold another target chain than the
\* newly bound one.
Earlier ==
    {n \in 1..Len(temp_chains) : temp_chains[n][2] # None /\ temp_chains[n][2] # targ}

\* The chain of a target chain name is a key of the target interaction graph.
IsKey(name) == HasKey(Final_interactions.target_interacts, getChain(name))

\* At least one of the two chains is no key.
LacksRecord(a, b) == ~(IsKey(a) /\ IsKey(b))

\* The step undoes the tentative binding and moves to the next candidate.
Rejected ==
    /\ Get(temp_chains', cand) = None
    /\ undone' = undone + 1
    /\ Len(stack') = Len(stack)
    /\ stack'[Len(stack)] = [Top EXCEPT !.at = "while", !.j = Top.j + 1]

\* C11 as stated: when the newly bound target chain and an earlier bound one
\* are not both keys of the target interaction graph, the binding is undone
\* and the next candidate tried, whatever the template interaction graph says.
C11_NoRecordRejected ==
    [][(AtCheck /\ \E n \in Earlier : LacksRecord(targ, temp_chains[n][2]))
          => Rejected]_vars

\* The earlier entry n speaks against the new binding: neither chain is a
\* key, or the chains interact and their template chains do not.
SpeaksAgainst(n) ==
    \/ ~IsKey(targ) /\ ~IsKey(temp_chains[n][2])
    \/ /\ TargetsInteract(getChain(targ), getChain(temp_chains[n][2]))
       /\ ~TemplatesInteract(getChain(temp_chains[n][1]), getChain(cand), temp)

\* C11, amended: when no earlier bound chain is a key together with the newly
\* bound one, the binding is undone exactly when, for some earlier chain,
\* neither of the two is a key, or one is, lists the other, and the two
\* template chains do not interact; a pair of which one chain is a key that
\* does not list the other, or whose template chains interact, is let through.
C11_NoRecordRule ==
    [][(AtCheck /\ Earlier # {}
          /\ \A n \in Earlier : LacksRecord(targ, temp_chains[n][2]))
          => (Rejected <=> \E n \in Earlier : SpeaksAgainst(n))]_vars

\* A third target chain accepted on top of two bound ones with which it is
\* never a key together, one of the pairs interacting.
C11_Witness ==
    /\ pc = "solving" /\ Len(stack) >= 3
    /\ stack[3].at = "called"
    /\ \A k \in 1..2 : LacksRecord(cand_list[3][1], cand_list[k][1])
    /\ \E k \in 1..2 :
          TargetsInteract(getChain(cand_list[3][1]), getChain(cand_list[k][1]))

\* --------------------------------------------------- the alignment scorer

\* The digits of a decimal numeral, and int() of a string of digits.
DigitValue(ch) ==
    CASE ch = "0" -> 0 [] ch = "1" -> 1 [] ch = "2" -> 2 [] ch = "3" -> 3
      [] ch = "4" -> 4 [] ch = "5" -> 5 [] ch = "6" -> 6 [] ch = "7" -> 7
      [] ch = "8" -> 8 [] ch = "9" -> 9

RECURSIVE int(_)
int(str) ==
    IF Len(str) = 0 THEN 0
    ELSE 10 * int(SubSeq(str, 1, Len(str) - 1)) + DigitValue(str[Len(str)])

\* The numeral ClustalW prints for a number.
RECURSIVE Numeral(_)
Numeral(n) ==
    LET last == <<<<"0", "1", "2", "3", "4", "5", "6", "7", "8", "9">>[(n % 10) + 1]>>
    IN  IF n < 10 THEN last ELSE Numeral(n \div 10) \o last

\* The lines of a ClustalScore.txt report, by the pattern they match:
\* equiv_reg "Sequence i: name", alig_reg "Sequences (i:j) Aligned. Score:  s",
\* or neither.
EquivLine(i, name) == [kind |-> "equiv", m2 |-> Numeral(i), m4 |-> name]
AligLine(i, j, s) == [kind |-> "alig", m2 |-> Numeral(i), m4 |-> Numeral(j), m6 |-> Numeral(s)]
OtherLine == [kind |-> "other"]

\* The pairs (i:j) ClustalW aligns for n sequences, in the order it reports them.
RECURSIVE PairsFrom(_, _, _)
PairsFrom(i, j, n) ==
    IF i >= n THEN <<>>
    ELSE IF j > n THEN PairsFrom(i + 1, i + 2, n)
    ELSE <<<<i, j>>>> \o PairsFrom(i, j + 1, n)

\* The report ClustalW prints (lines 170-172) for the sequences of a joined
\* FASTA file (the target chains, then the template chain: lines 561-562),
\* given the score of every pair.
Report(names, pair_score) ==
    <<OtherLine>>
    \o [k \in 1..Len(names) |-> EquivLine(k, names[k])]
    \o <<OtherLine>>
    \o [k \in 1..Len(PairsFrom(1, 2, Len(names))) |->
          LET pr == PairsFrom(1, 2, Len(names))[k]
          IN  AligLine(pr[1], pr[2], pair_score[pr])]
    \o <<OtherLine>>

\* Lines 194-207: the loop over the lines of the report, from line k on. The
\* reports list the sequences before the scores, so that template is bound
\* when the first score line is read.
RECURSIVE AnalizeFrom(_, _, _, _, _, _, _)
AnalizeFrom(file, k, temp_name, score, equivalences, template, aligns) ==
    IF k > Len(file) THEN aligns
    ELSE LET line == file[k]
         IN  IF line.kind = "equiv"
             THEN AnalizeFrom(file, k + 1, temp_name, score,
                              Put(equivalences, line.m2, line.m4),
                              IF line.m4 = temp_name THEN line.m2 ELSE template,
                              aligns)
             ELSE IF line.kind = "alig"
             THEN IF template = line.m2 /\ int(line.m6) >= score
                  THEN AnalizeFrom(file, k + 1, temp_name, score, equivalences, template,
                                   Append(aligns, Get(equivalences, line.m4)))
                  ELSE IF template = line.m4 /\ int(line.m6) >= score
                  THEN AnalizeFrom(file, k + 1, temp_name, score, equivalences, template,
                                   Append(aligns, Get(equivalences, line.m2)))
                  ELSE AnalizeFrom(file, k + 1, temp_name, score, equivalences, template,
                                   aligns)
             ELSE AnalizeFrom(file, k + 1, temp_name, score, equivalences, template, aligns)

\* Lines 174-207.
AnalizeClustalScore(file, temp_name, score) ==
    AnalizeFrom(file, 1, temp_name, score, <<>>, None, <<>>)

\* Cascade without the threshold of line 579.
Cascade_Skips90(file, temp_name) ==
    LET a100 == AnalizeClustalScore(file, temp_name, 100)
        a50 == AnalizeClustalScore(file, temp_name, 50)
        a0 == AnalizeClustalScore(file, temp_name, 0)
    IN  IF Len(a100) # 0 THEN a100
        ELSE IF Len(a50) # 0 THEN a50
        ELSE a0

\* Lines 577-584: the thresholds 100, 90, 50 and 0, until one gives a chain.
Cascade(file, temp_name) ==
    LET a100 == AnalizeClustalScore(file, temp_name, 100)
        a90 == AnalizeClustalScore(file, temp_name, 90)
        a50 == AnalizeClustalScore(file, temp_name, 50)
        a0 == AnalizeClustalScore(file, temp_name, 0)
    IN  IF Len(a100) # 0 THEN a100
        ELSE IF Len(a90) # 0 THEN a90
        ELSE IF Len(a50) # 0 THEN a50
        ELSE a0

\* The scores ClustalW can give that lie on and next to the thresholds.
ScoreValues == {0, 49, 50, 89, 90, 100}

\* The target chains of a joined FASTA file, and the template chain.
AlignedTargets(n) == SubSeq(UniqueChains(SplitChain(ScenarioInputs)), 1, n)
AlignedTemplate == ChainName(TemplateName(1), TemplateLabels[1])

ScoreInit ==
    \E n \in 1..MaxAligned :
        \E pair_score \in [Range(PairsFrom(1, 2, n + 1)) -> ScoreValues] :
            /\ sc_scores = [k \in 1..n |-> <<AlignedTargets(n)[k], pair_score[<<k, n + 1>>]>>]
            /\ sc_file = Report(Append(AlignedTargets(n), AlignedTemplate), pair_score)
            /\ sc_temp_name = AlignedTemplate
            /\ target_temp = <<>>
            /\ sc_pc = "align"

\* Lines 577-586 for one joined FASTA file: the cascade, and the candidate
\* list stored for the template chain.
StoreAligns ==
    /\ sc_pc = "align"
    /\ target_temp' = Put(target_temp, sc_temp_name, Cascade(sc_file, sc_temp_name))
    /\ sc_pc' = "stored"
    /\ UNCHANGED <<sc_scores, sc_file, sc_temp_name, solverVars, selectVars, clashVars, parseVars>>

NextScore == StoreAligns

InitScore == ScoreInit /\ SolverIdle /\ SelectIdle /\ ClashIdle /\ ParseIdle

SpecScore == InitScore /\ [][NextScore]_vars

\* The target chains ClustalW scored at th or more against the template chain.
ScoredAtLeast(th) == {sc_scores[k][1] : k \in {k \in 1..Len(sc_scores) : sc_scores[k][2] >= th}}

\* The thresholds, in the order the claim names them.
Thresholds == <<100, 90, 50, 0>>

\* The chains at the first threshold that gives a chain, and none if none does.
FirstNonEmpty ==
    LET hits == {k \in 1..Len(Thresholds) : ScoredAtLeast(Thresholds[k]) # {}}
    IN  IF hits = {} THEN {}
        ELSE ScoredAtLeast(Thresholds[CHOOSE k \in hits : \A m \in hits : k <= m])

\* C6: the candidate list stored for a template chain is the set of all
\* target chains that score T or more against it, T the first of 100, 90, 50,
\* 0 for which that set is not empty.
C6_ThresholdCascade ==
    sc_pc = "stored" => Range(Get(target_temp, sc_temp_name)) = FirstNonEmpty

\* Two chains tied at 90 are both stored, with no chain at 100.
C6_Witness ==
    /\ sc_pc = "stored"
    /\ Len(sc_scores) = 2
    /\ \A k \in 1..2 : sc_scores[k][2] = 90
    /\ Len(Get(target_temp, sc_temp_name)) = 2

\* -------------------------------------------------- the template selection

\* ord() of the characters of an E-value.
Ord(ch) ==
    CASE ch = "-" -> 45 [] ch = "." -> 46 [] ch = "e" -> 101
      [] OTHER -> 48 + DigitValue(ch)

\* a < b for Python strings: by the first character that differs, a proper
\* prefix first.
RECURSIVE StrLess(_, _)
StrLess(a, b) ==
    IF Len(b) = 0 THEN FALSE
    ELSE IF Len(a) = 0 THEN TRUE
    ELSE IF Head(a) # Head(b) THEN Ord(Head(a)) < Ord(Head(b))
    ELSE StrLess(Tail(a), Tail(b))

\* min() of a non-empty set of strings.
StrMin(S) == CHOOSE x \in S : \A y \in S : ~StrLess(y, x)

\* The number an E-value of a BLAST report stands for: digits, or digits
\* "e-" digits, as mantissa and negated decimal exponent.
EValue(str) ==
    LET es == {k \in 1..Len(str) : str[k] = "e"}
    IN  IF es = {} THEN [mant |-> int(str), exp |-> 0]
        ELSE LET e == CHOOSE k \in es : TRUE
             IN  [mant |-> int(SubSeq(str, 1, e - 1)),
                  exp |-> int(SubSeq(str, e + 2, Len(str)))]

RECURSIVE Pow10(_)
Pow10(n) == IF n = 0 THEN 1 ELSE 10 * Pow10(n - 1)

\* x <= y as numbers, for two E-values.
NumLeq(x, y) ==
    EValue(x).mant * Pow10(EValue(y).exp) <= EValue(y).mant * Pow10(EValue(x).exp)

\* The E-values of the reports: BLAST prints small ones as 2e-08, larger ones
\* as plain numbers.
EValues == {<<"2", "e", "-", "0", "8">>, <<"1", "e", "-", "0", "5">>,
            <<"5">>, <<"7">>, <<"1", "0">>}

\* The database sequences BLAST can hit: chains of T1 and of T2.
HitNames == {ChainName(TemplateName(1), "A"), ChainName(TemplateName(1), "B"),
             ChainName(TemplateName(2), "A")}

\* The lines of a report: whether the line starts with "Sequences producing
\* significant alignments:", and its fields after strip().split().
HeaderLine == [header |-> TRUE, fields |-> <<<<"V">>>>]
BlankLine == [header |-> FALSE, fields |-> <<>>]
TextLine == [header |-> FALSE, fields |-> <<<<"t">>>>]
HitLine(name, bits, evalue) == [header |-> FALSE, fields |-> <<name, bits, evalue>>]

\* A report with a table of hits, best first, and the alignments after it;
\* and a report of a search that found nothing.
ReportWithHits(hits) ==
    <<TextLine, HeaderLine, BlankLine>>
    \o [k \in 1..Len(hits) |-> HitLine(hits[k][1], <<"9">>, hits[k][2])]
    \o <<BlankLine, TextLine>>

ReportWithoutHits == <<TextLine, BlankLine, TextLine>>

\* A database sequence is listed once, and the hits are sorted by E-value.
HitLists ==
    {hits \in UNION {[1..n -> HitNames \X EValues] : n \in 1..MaxHits} :
        /\ \A k \in 1..(Len(hits) - 1) : NumLeq(hits[k][2], hits[k + 1][2])
        /\ \A k, m \in 1..Len(hits) : k # m => hits[k][1] # hits[m][1]}

Reports == {ReportWithHits(hits) : hits \in HitLists} \cup {ReportWithoutHits}

\* Lines 56-73: the report file of the k-th query.
ReportName(k) ==
    UniqueChains(SplitChain(ScenarioInputs))[k] \o <<".", "x", "m", "l">>

\* Lines 89-105 for one report, read from line k on: what the report leaves
\* in Outputs (nothing, when recorded is FALSE), or the IndexError of
\* line[len(line)-1] on a line without fields. "outer" is the loop of line
\* 89, "inner" the one of line 92; both read the same file.
RECURSIVE ScanReport(_, _, _, _, _, _)
ScanReport(file, k, loop, First, min_evalue, template_evalue) ==
    IF k > Len(file)
    THEN [error |-> FALSE, recorded |-> ~First, hits |-> template_evalue]
    ELSE IF loop = "outer"
    THEN IF file[k].header
         THEN ScanReport(file, k + 2, "inner", First, min_evalue, template_evalue)
         ELSE ScanReport(file, k + 1, "outer", First, min_evalue, template_evalue)
    ELSE LET line == file[k].fields
         IN  IF Len(line) = 0
             THEN [error |-> TRUE, recorded |-> ~First, hits |-> template_evalue]
             ELSE IF First
             THEN ScanReport(file, k + 1, "inner", FALSE, line[Len(line)],
                             <<<<getNameWOChain(line[1]), line[Len(line)]>>>>)
             ELSE IF line[Len(line)] = min_evalue
             THEN ScanReport(file, k + 1, "inner", FALSE, min_evalue,
                             Append(template_evalue,
                                    <<getNameWOChain(line[1]), line[Len(line)]>>))
             ELSE ScanReport(file, k + 1, "outer", FALSE, min_evalue, template_evalue)

\* Lines 84-105: Outputs after the reports up to the k-th were read.
RECURSIVE OutputsFrom(_, _, _)
OutputsFrom(outs, k, outputs) ==
    IF k > Len(outs) THEN [error |-> FALSE, Outputs |-> outputs]
    ELSE LET r == ScanReport(outs[k][2], 1, "outer", TRUE, None, <<>>)
             o == IF r.recorded THEN Put(outputs, outs[k][1], r.hits) ELSE outputs
         IN  IF r.error THEN [error |-> TRUE, Outputs |-> o]
             ELSE OutputsFrom(outs, k + 1, o)

\* Line 107: the least E-value of the recorded hits, as min() of strings gives it.
MinEvalue(outputs) ==
    StrMin({StrMin({outputs[k][2][h][2] : h \in 1..Len(outputs[k][2])}) :
               k \in 1..Len(outputs)})

\* Lines 108-112.
TemplatesAt(outputs, min_evalue) ==
    UNION {{outputs[k][2][h][1] :
               h \in {h \in 1..Len(outputs[k][2]) : outputs[k][2][h][2] = min_evalue}} :
             k \in 1..Len(outputs)}

SelectInit ==
    \E n \in 1..MaxQueries :
        \E reps \in [1..n -> Reports] :
            /\ BLAST_outs = [k \in 1..n |-> <<ReportName(k), reps[k]>>]
            /\ Outputs = <<>>
            /\ templates = {}
            /\ sel_pc = "select"

\* Lines 75-114: SelectTemplate returns the templates, or raises the
\* IndexError of line 96 or 101, or the ValueError of min() of nothing.
SelectTemplate ==
    /\ sel_pc = "select"
    /\ LET r == OutputsFrom(BLAST_outs, 1, <<>>)
       IN  /\ Outputs' = r.Outputs
           /\ IF r.error
              THEN sel_pc' = "IndexError" /\ templates' = {}
              ELSE IF r.Outputs = <<>>
              THEN sel_pc' = "ValueError" /\ templates' = {}
              ELSE /\ sel_pc' = "returned"
                   /\ templates' = TemplatesAt(r.Outputs, MinEvalue(r.Outputs))
    /\ UNCHANGED <<BLAST_outs, solverVars, scoreVars, clashVars, parseVars>>

NextSelect == SelectTemplate

InitSelect == SelectInit /\ SolverIdle /\ ScoreIdle /\ ClashIdle /\ ParseIdle

SpecSelect == InitSelect /\ [][NextSelect]_vars

\* The hits Outputs records, over all queries.
RecordedHits ==
    UNION {Range(Outputs[k][2]) : k \in 1..Len(Outputs)}

\* The templates whose recorded score is the least recorded score.
LeastScoreTemplates ==
    {h[1] : h \in {h \in RecordedHits : \A g \in RecordedHits : NumLeq(h[2], g[2])}}

\* The field that says whether the k-th report has the header line.
HasHeader(k) == \E n \in 1..Len(BLAST_outs[k][2]) : BLAST_outs[k][2][n].header

\* C7: SelectTemplate returns exactly the templates (chain suffix stripped)
\* whose recorded score equals the minimum score over the recorded hits of
\* all queries, and a report without the header line contributes no hits.
C7_MinimumScoreTemplates ==
    sel_pc = "returned" =>
        /\ templates = LeastScoreTemplates
        /\ \A k \in 1..Len(BLAST_outs) :
              ~HasHeader(k) => ~HasKey(Outputs, BLAST_outs[k][1])

\* ------------------------------------------------------- the clash check

\* Line 223: dist = 0.4, in tenths of a length unit, as the coordinates are.
ClashDist == 4

\* Atoms lie on one axis, at distances that are well below or well above dist.
Coords == {0, 3, 10, 13}

Chain(id, atoms) == [id |-> id, atoms |-> atoms]

\* neighbors.search(center.coord, dist, level='C'): the chains with an atom
\* within dist of center.
Search(obj, center, dist) ==
    {k \in 1..Len(obj) :
        \E a \in 1..Len(obj[k].atoms) :
            (IF obj[k].atoms[a] >= center THEN obj[k].atoms[a] - center
             ELSE center - obj[k].atoms[a]) <= dist}

\* Lines 229-246 with inter = False, from the k-th chain on: the first atom
\* met decides, and a structure without atoms falls through to line 245.
RECURSIVE FindClashFrom(_, _)
FindClashFrom(obj, k) ==
    IF k > Len(obj) THEN "None"
    ELSE IF Len(obj[k].atoms) = 0 THEN FindClashFrom(obj, k + 1)
    ELSE IF \E n \in Search(obj, obj[k].atoms[1], ClashDist) : obj[n].id # obj[k].id
         THEN "True"
         ELSE "False"

\* FindInteractions(PDB_obj, False)
FindInteractions(obj) == FindClashFrom(obj, 1)

ClashInit ==
    \E n \in 2..MaxClashChains :
        \E atoms \in [1..n -> UNION {[1..m -> Coords] : m \in 1..MaxAtoms}] :
            /\ PDB_obj = [k \in 1..n |-> Chain(TargetLabels[k], atoms[k])]
            /\ clash = "None"
            /\ clash_pc = "check"

\* Line 619: the clash check of one model.
CheckClash ==
    /\ clash_pc = "check"
    /\ clash' = FindInteractions(PDB_obj)
    /\ clash_pc' = "returned"
    /\ UNCHANGED <<PDB_obj, solverVars, scoreVars, selectVars, parseVars>>

NextClash == CheckClash

InitClash == ClashInit /\ SolverIdle /\ ScoreIdle /\ SelectIdle /\ ParseIdle

SpecClash == InitClash /\ [][NextClash]_vars

\* Some atom of a chain lies within the clash distance of an atom of another chain.
SomeClash ==
    \E k, n \in 1..Len(PDB_obj) :
        /\ PDB_obj[k].id # PDB_obj[n].id
        /\ \E a \in 1..Len(PDB_obj[k].atoms) : n \in Search(PDB_obj, PDB_obj[k].atoms[a], ClashDist)

\* C8: in clash mode FindInteractions returns true if and only if some atom
\* of some chain lies within the clash threshold of an atom of another chain.
C8_ClashIffAnyAtom ==
    clash_pc = "returned" => ((clash = "True") <=> SomeClash)

\* ------------------------------------------- the solver over templates

\* AssignQueryToTemp as a function of its arguments: what it returns, and
\* temp_chains as it leaves it, from candidate j of target chain i on.
RECURSIVE AssignFrom(_, _, _, _, _)
AssignFrom(i, j, cl, chains, tmpl) ==
    IF i >= Len(cl) THEN [ok |-> TRUE, chains |-> chains]
    ELSE IF j >= Len(cl[i + 1][2]) THEN [ok |-> FALSE, chains |-> chains]
    ELSE LET tg == cl[i + 1][1]
             c == cl[i + 1][2][j + 1]
             bound == Put(chains, c, tg)
         IN  IF Get(chains, c) = None /\ Valid(bound, tg, c, tmpl)
             THEN LET r == AssignFrom(i + 1, 0, cl, bound, tmpl)
                  IN  IF r.ok THEN r ELSE AssignFrom(i, j + 1, cl, chains, tmpl)
             ELSE AssignFrom(i, j + 1, cl, chains, tmpl)

\* I_AssignQueryToTemp for tmpl alone, with every template chain unassigned.
FreshRun(tmpl) ==
    LET fresh == [n \in 1..Len(temp_chains) |-> <<temp_chains[n][1], None>>]
    IN  IF ReturnsEarly(PDB_bychain_names, tmpl)
        THEN [ok |-> FALSE, chains |-> fresh]
        ELSE AssignFrom(0, 0, Candidates(PDB_bychain_names, tmpl), fresh, tmpl)

\* One input structure of two chains.
LoopInputSets == {ins \in InputSets : Len(ins) = 1 /\ Len(ins[1].chains) = 2}

\* One to MaxTemplates templates of one to MaxLoopChains chains each.
LoopShapes == UNION {[1..n -> 1..MaxLoopChains] : n \in 1..MaxTemplates}

InitLoop ==
    /\ SolverInit(LoopInputSets, LoopShapes)
    /\ ScoreIdle /\ SelectIdle /\ ClashIdle /\ ParseIdle

SpecLoop == InitLoop /\ [][Next]_vars

\* The run for the k-th template ended as a run for it alone would.
AsFresh(k) ==
    LET tmpl == PDB_temp_names[k]
        alone == FreshRun(tmpl)
    IN  /\ (outcome[k] = "True") <=> alone.ok
        /\ \A c \in Range(ChainsOf(tmpl)) : Get(temp_chains, c) = Get(alone.chains, c)

\* C10: in the loop over the templates, the outcome for each template
\* (success or failure, and the target chain each template chain gets) is the
\* one of a run for that template alone from an all-unassigned Assignment.
C10_FreshPerTemplate == \A k \in 1..Len(outcome) : AsFresh(k)

\* ------------------------------------------------------- the input phase

\* The sequences without repetition of n elements of S.
Arrangements(S, n) ==
    {f \in [1..n -> S] : \A a, b \in 1..n : a # b => f[a] # f[b]}

\* The structure files -i can name: two chains or more, in any file order.
ParsedStructures ==
    {Structure(c) :
        c \in UNION {Arrangements(Range(TargetLabels), n) : n \in 2..Len(TargetLabels)}}

\* Line 514: the input files are parsed, one to MaxInputs different ones.
ParseInit ==
    /\ PDB_input_objects \in
          UNION {Arrangements(ParsedStructures, n) : n \in 1..MaxInputs}
    /\ parse_pc = "parsing"

\* Lines 515-538: the chains are split, the unique ones saved, and the target
\* interaction graph filled from the input structures.
ParseInput ==
    /\ parse_pc = "parsing"
    /\ PDB_bychain_names' = UniqueChains(SplitChain(PDB_input_objects))
    /\ Final_interactions' =
          [Final_interactions EXCEPT
              !.target_interacts = TargetInteracts(PDB_input_objects)]
    /\ parse_pc' = "parsed"
    /\ UNCHANGED <<PDB_temp_names, temp_chains, t, pc, cand_list, stack, ret,
                   outcome, undone, calls>>
    /\ UNCHANGED <<PDB_input_objects, scoreVars, selectVars, clashVars>>

NextParse == ParseInput

InitParse == ParseInit /\ SolverIdle /\ ScoreIdle /\ SelectIdle /\ ClashIdle

SpecParse == InitParse /\ [][NextParse]_vars

\* C12 as stated: after the input phase, any two different chains of one input
\* structure are recorded as interacting in the target interaction graph, in
\* one direction at least: one is a key whose list holds the other.
C12_CoOccurringChainsRecorded ==
    parse_pc = "parsed" =>
        \A k \in 1..Len(PDB_input_objects) :
            \A a, b \in Range(PDB_input_objects[k].chains) :
                a # b => TargetsInteract(a, b)

\* C12, amended: after the input phase, the first chain of every input
\* structure is a key of the target interaction graph whose list holds the
\* second chain of that structure, also when the structure has more chains
\* and when several structures share their first chain; and the graph
\* records no pair but these, so a chain after the second is in it only as
\* one of the first two chains of another structure.
C12_FirstTwoChainsRecorded ==
    parse_pc = "parsed" =>
        LET target_interacts == Final_interactions.target_interacts
        IN  /\ \A k \in 1..Len(PDB_input_objects) :
                  /\ HasKey(target_interacts, PDB_input_objects[k].chains[1])
                  /\ InList(PDB_input_objects[k].chains[2],
                            Get(target_interacts, PDB_input_objects[k].chains[1]))
            /\ \A n \in 1..Len(target_interacts) :
                  \A b \in Range(target_interacts[n][2]) :
                      \E k \in 1..Len(PDB_input_objects) :
                          /\ PDB_input_objects[k].chains[1] = target_interacts[n][1]
                          /\ PDB_input_objects[k].chains[2] = b

\* Two parsed structures with the same first chain and different second
\* chains, one of them of three chains.
C12_Witness ==
    /\ parse_pc = "parsed"
    /\ Len(PDB_input_objects) = 2
    /\ PDB_input_objects[1].chains[1] = PDB_input_objects[2].chains[1]
    /\ PDB_input_objects[1].chains[2] # PDB_input_objects[2].chains[2]
    /\ Len(PDB_input_objects[2].chains) = 3
    /\ Len(Get(Final_interactions.target_interacts,
               PDB_input_objects[1].chains[1])) = 2
====
